---- MODULE Spec2Model ----
(***************************************************************************)
(* discord-chunker: the line-oriented chunker (chunkContent, countLines)   *)
(* of src/chunker.ts.  A string is a sequence of one-character strings;    *)
(* the newline is the character NL.                                        *)
(*                                                                         *)
(* One call of chunkContent is one behaviour: content, maxChars and         *)
(* maxLines are its arguments, the other variables its local state, pc the  *)
(* place in the function and err the error thrown.  closedWith is a         *)
(* history variable: closedWith[i] is the fence that flush() closed at the  *)
(* end of chunks[i], NoFence when that chunk was ended with no fence open.  *)
(* lineCount is the value returned by a call of countLines(content).        *)
(*                                                                         *)
(* The worker (handleRequest of src/index.ts, sendChunks of src/discord.ts) *)
(* is the second part of the state: wpc is the place in the worker, and     *)
(* requests the history of the fetch calls made to Discord; sendIdx is the  *)
(* loop variable i of sendChunks, slept the pre-emptive sleep (in ms, 0 for *)
(* none) made before the first request of the chunk sendIdx.               *)
(***************************************************************************)
EXTENDS Integers, Sequences, FiniteSets, TLC

VARIABLES content, maxChars, maxLines, lines, idx, chunks, current,
          currentChars, currentContentLines, fence, remaining, pc, err,
          closedWith,
          lineCount,
          wpc, payload, threadId, wait, sendIdx, rateLimit, failedStatus,
          firstMessageObject, retryCount, lastStatus, result, requests, slept,
          response

\* the arguments and the local state of chunkContent
cvars == <<content, maxChars, maxLines, lines, idx, chunks, current,
           currentChars, currentContentLines, fence, remaining, pc, err,
           closedWith>>

\* the request of the worker, the local state of handleRequest and of
\* sendChunks, the requests made to Discord and the response of the worker
wvars == <<wpc, payload, threadId, wait, sendIdx, rateLimit, failedStatus,
           firstMessageObject, retryCount, lastStatus, result, requests, slept,
           response>>

vars == <<cvars, lineCount, wvars>>

(* ------------------------------ strings -------------------------------- *)

NL == "\n"
SP == " "
\* the backquote; a TLA+ string cannot hold that character, so the
\* apostrophe (which no input of the model holds otherwise) stands for it
BT == "'"
TL == "~"

Pad(c, n) == [i \in 1..n |-> c]

\* String.prototype.length of the array of lines joined by "\n"
RECURSIVE Join(_)
Join(ls) ==
    IF Len(ls) = 0 THEN <<>>
    ELSE IF Len(ls) = 1 THEN ls[1]
    ELSE ls[1] \o <<NL>> \o Join(Tail(ls))

\* s.split("\n") of the suffix of s that starts at position from
RECURSIVE SplitFrom(_, _)
SplitFrom(s, from) ==
    IF \E i \in from..Len(s) : s[i] = NL
    THEN LET nl == CHOOSE i \in from..Len(s) :
                      s[i] = NL /\ \A j \in from..(i - 1) : s[j] # NL
         IN  <<SubSeq(s, from, nl - 1)>> \o SplitFrom(s, nl + 1)
    ELSE <<SubSeq(s, from, Len(s))>>

Split(s) == SplitFrom(s, 1)

\* white space and line terminators, as String.prototype.trim strips them
IsWs(c) == c \in {SP, NL}

LeadingWs(s) ==
    CHOOSE k \in 0..Len(s) :
        /\ \A i \in 1..k : IsWs(s[i])
        /\ (k = Len(s) \/ ~IsWs(s[k + 1]))

TrailingWs(s) ==
    CHOOSE k \in 0..Len(s) :
        /\ \A i \in 1..k : IsWs(s[Len(s) + 1 - i])
        /\ (k = Len(s) \/ ~IsWs(s[Len(s) - k]))

Trim(s) ==
    IF LeadingWs(s) = Len(s) THEN <<>>
    ELSE SubSeq(s, LeadingWs(s) + 1, Len(s) - TrailingWs(s))

\* length of the run of character c in s that starts at position from
RunLen(s, from, c) ==
    CHOOSE k \in 0..(Len(s) + 1 - from) :
        /\ \A i \in 0..(k - 1) : s[from + i] = c
        /\ (from + k > Len(s) \/ s[from + k] # c)

(* ------------------------------- fences -------------------------------- *)

NoMatch == [ok |-> FALSE, markerChar |-> "", markerLen |-> 0]

\* line.match(FENCE_RE) with FENCE_RE = /^( {0,3})(BT{3,}|~{3,})(.*)$/ :
\* group 2 is the whole run of the marker character (the quantifier is greedy)
FenceMatch(line) ==
    LET ind == RunLen(line, 1, SP) IN
    IF ind <= 3 /\ ind + 1 <= Len(line) /\ line[ind + 1] \in {BT, TL}
              /\ RunLen(line, ind + 1, line[ind + 1]) >= 3
    THEN [ok |-> TRUE, markerChar |-> line[ind + 1],
          markerLen |-> RunLen(line, ind + 1, line[ind + 1])]
    ELSE NoMatch

isFenceLine(line) == FenceMatch(line).ok

NoFence == [active |-> FALSE, openLine |-> <<>>, markerChar |-> "", markerLen |-> 0]

\* fence.markerChar.repeat(fence.markerLen)
CloseLine(f) == Pad(f.markerChar, f.markerLen)

\* "const lineIsFence": the line opens a fence, or closes the open one
LineIsFence(line, f) ==
    LET m == FenceMatch(line) IN
    /\ m.ok
    /\ (~f.active \/ (m.markerChar = f.markerChar /\ m.markerLen >= f.markerLen))

\* the closing test without the comparison of the marker lengths
ClosesAnyLength(line, f) ==
    LET m == FenceMatch(line) IN
    m.ok /\ m.markerChar = f.markerChar

Closes(line, f) ==
    LET m == FenceMatch(line) IN
    m.ok /\ m.markerChar = f.markerChar /\ m.markerLen >= f.markerLen

\* "Update fence state for this line" / "Update fence state AFTER adding the line"
UpdateFence(line, f) ==
    LET m == FenceMatch(line) IN
    IF ~m.ok THEN f
    ELSE IF ~f.active
         THEN [active |-> TRUE, openLine |-> line,
               markerChar |-> m.markerChar, markerLen |-> m.markerLen]
         ELSE IF Closes(line, f) THEN NoFence ELSE f

\* countLines with a filter that drops the empty lines too
countLinesSkipBlank(text) ==
    IF text = <<>> THEN 0
    ELSE LET ls == Split(text) IN
         Cardinality({k \in 1..Len(ls) : Len(ls[k]) > 0 /\ ~isFenceLine(ls[k])})

\* countLines(text): the lines of text that are no fence delimiter lines
countLines(text) ==
    IF text = <<>> THEN 0
    ELSE LET ls == Split(text) IN
         Cardinality({i \in 1..Len(ls) : ~isFenceLine(ls[i])})

(* ------------------------------- flush --------------------------------- *)

\* The part of the state that flush() reads and writes.
Acc == [chunks |-> chunks, current |-> current, currentChars |-> currentChars,
        currentContentLines |-> currentContentLines, closedWith |-> closedWith]

\* const flush = () => { ... }
Flush(a, f) ==
    IF Len(a.current) = 0 THEN a
    ELSE LET cur == IF f.active THEN Append(a.current, CloseLine(f)) ELSE a.current
         IN  [chunks |-> Append(a.chunks, Trim(Join(cur))),
              current |-> IF f.active THEN <<f.openLine>> ELSE <<>>,
              currentChars |-> IF f.active THEN Len(f.openLine) ELSE 0,
              currentContentLines |-> 0,
              closedWith |-> Append(a.closedWith, f)]

SetAcc(a) ==
    /\ chunks' = a.chunks
    /\ current' = a.current
    /\ currentChars' = a.currentChars
    /\ currentContentLines' = a.currentContentLines
    /\ closedWith' = a.closedWith

Min(a, b) == IF a < b THEN a ELSE b

(* ------------------------------ constants ------------------------------ *)

DISCORD_CHAR_LIMIT == 2000

\* validateConfig accepts maxChars in MinMaxChars..DISCORD_CHAR_LIMIT
MinMaxChars == 100

(* ------------------------------- inputs -------------------------------- *)

\* the largest number of lines of a content
MaxInputLines == 3

\* maxChars: a value below the range validateConfig accepts (the tests call
\* chunkContent with it) and the least value of that range; the greatest value
\* of the range, DISCORD_CHAR_LIMIT, is the configuration of SpecCeiling
MaxCharsValues == {10, MinMaxChars}

MaxLinesValues == {0, 1, 2}

A == "a"

\* The lines a content is made of, relative to maxChars mc: short lines,
\* lines with white space around them, fence lines of both families, lines
\* that fill a chunk up to the fence wrappers, and lines longer than mc.
LinesFor(mc) ==
    { <<>>,
      <<"x">>,
      <<SP, SP, "x", SP>>,
      <<BT, BT, BT>>,
      <<SP, BT, BT, BT, "j", "s">>,
      <<TL, TL, TL>>,
      Pad(A, mc - 8),
      Pad(A, mc - 5),
      <<BT, BT, BT>> \o Pad(A, mc),
      Pad(A, mc + 3) }

RECURSIVE LineSeqs(_, _)
LineSeqs(L, n) ==
    IF n = 0 THEN {<<>>}
    ELSE LET shorter == LineSeqs(L, n - 1) IN
         shorter \cup {Append(ls, l) : ls \in {t \in shorter : Len(t) = n - 1}, l \in L}

\* The lines of a content when maxChars is DISCORD_CHAR_LIMIT: the lines of
\* LinesFor that decide whether a chunk passes the limit.
CeilingLines ==
    { <<>>,
      <<"x">>,
      <<BT, BT, BT>>,
      Pad(A, DISCORD_CHAR_LIMIT - 5),
      <<BT, BT, BT>> \o Pad(A, DISCORD_CHAR_LIMIT),
      Pad(A, DISCORD_CHAR_LIMIT + 3) }

\* every content of at most MaxInputLines lines of L (the empty content is
\* the single blank line)
Contents(L) == {Join(ls) : ls \in LineSeqs(L, MaxInputLines) \ {<<>>}}

(* -------------------------------- state -------------------------------- *)

\* a header that a response does not have, a number that is null
Null == -1

\* no SendResult yet
NoResult ==
    [success |-> FALSE, firstMessageObject |-> "null", chunksSent |-> 0,
     chunksTotal |-> 0, retryCount |-> 0, lastStatus |-> Null, lastError |-> "none"]

\* no JSON payload: chunkContent or countLines is called directly
NoPayload == [content |-> "none", embeds |-> "none", large |-> FALSE]

\* the local state of sendChunks at its entry, and no request made yet
SendEntry ==
    /\ sendIdx = 0
    /\ rateLimit = [remaining |-> Null, resetAfterMs |-> Null]
    /\ failedStatus = Null
    /\ firstMessageObject = "null"
    /\ retryCount = 0
    /\ lastStatus = Null
    /\ result = NoResult
    /\ requests = <<>>
    /\ slept = 0
    /\ response = 0

\* a direct call of the chunker: there is no worker
NoWorker ==
    /\ wpc = "direct"
    /\ payload = NoPayload
    /\ threadId = ""
    /\ wait = "undefined"
    /\ SendEntry

\* the local state at the entry of chunkContent
Locals ==
    /\ lines = <<>>
    /\ idx = 1
    /\ chunks = <<>>
    /\ current = <<>>
    /\ currentChars = 0
    /\ currentContentLines = 0
    /\ fence = NoFence
    /\ remaining = <<>>
    /\ err = "none"
    /\ closedWith = <<>>
    /\ lineCount = -1

Entry ==
    /\ Locals
    /\ pc = "start"

Init ==
    /\ maxChars \in MaxCharsValues
    /\ maxLines \in MaxLinesValues
    /\ content \in Contents(LinesFor(maxChars))
    /\ Entry
    /\ NoWorker

InitCeiling ==
    /\ maxChars = DISCORD_CHAR_LIMIT
    /\ maxLines \in MaxLinesValues
    /\ content \in Contents(CeilingLines)
    /\ Entry
    /\ NoWorker

\* a direct call of the exported countLines(content)
CountLinesCall ==
    /\ pc = "start"
    /\ wpc = "direct"
    /\ lineCount' = countLines(content)
    /\ pc' = "counted"
    /\ UNCHANGED <<content, maxChars, maxLines, lines, idx, chunks, current, currentChars,
                   currentContentLines, fence, remaining, err, closedWith>>
    /\ UNCHANGED wvars

\* if (!content) return [content];
ReturnEmpty ==
    /\ pc = "start"
    /\ content = <<>>
    /\ chunks' = <<content>>
    /\ closedWith' = <<NoFence>>
    /\ pc' = "returned"
    /\ UNCHANGED <<content, maxChars, maxLines, lines, idx, current, currentChars,
                   currentContentLines, fence, remaining, err>>
    /\ UNCHANGED <<lineCount, wvars>>

\* const lines = content.split("\n");
SplitLines ==
    /\ pc = "start"
    /\ content # <<>>
    /\ lines' = Split(content)
    /\ pc' = "loop"
    /\ UNCHANGED <<content, maxChars, maxLines, idx, chunks, current, currentChars,
                   currentContentLines, fence, remaining, err, closedWith>>
    /\ UNCHANGED <<lineCount, wvars>>

\* "when inside a fence, account for the close-fence overhead on flush"
FenceCloseOverhead(f) == IF f.active THEN 1 + Len(CloseLine(f)) ELSE 0

\* the character test with the limit off by one
ExceedsCharsOffByOne(line, f, cur, curChars, mc) ==
    LET joinCost == IF Len(cur) > 0 THEN 1 ELSE 0
        nextChars == curChars + joinCost + Len(line)
    IN  nextChars + FenceCloseOverhead(f) > mc + 1

\* the character test that flushes a chunk the line would fill exactly
ExceedsCharsAtLimit(line, f, cur, curChars, mc) ==
    LET joinCost == IF Len(cur) > 0 THEN 1 ELSE 0
        nextChars == curChars + joinCost + Len(line)
    IN  nextChars + FenceCloseOverhead(f) >= mc

\* the character test without the cost of the "\n" that joins the line
ExceedsCharsNoJoin(line, f, cur, curChars, mc) ==
    LET nextChars == curChars + Len(line)
    IN  nextChars + FenceCloseOverhead(f) > mc

ExceedsChars(line, f, cur, curChars, mc) ==
    LET joinCost == IF Len(cur) > 0 THEN 1 ELSE 0
        nextChars == curChars + joinCost + Len(line)
    IN  nextChars + FenceCloseOverhead(f) > mc

\* the line test with the empty lines left out of the count
ExceedsLinesSkipBlank(line, f, curLines, ml) ==
    LET nextContentLines ==
            curLines + (IF LineIsFence(line, f) \/ Len(line) = 0 THEN 0 ELSE 1)
    IN  ml > 0 /\ nextContentLines > ml

\* the line test without the maxLines > 0 guard
ExceedsLinesNoZeroGuard(line, f, curLines, ml) ==
    LET nextContentLines == curLines + (IF LineIsFence(line, f) THEN 0 ELSE 1)
    IN  nextContentLines > ml

ExceedsLines(line, f, curLines, ml) ==
    LET nextContentLines == curLines + (IF LineIsFence(line, f) THEN 0 ELSE 1)
    IN  ml > 0 /\ nextContentLines > ml

\* One iteration of the for loop for a line that fits in maxChars.
NormalLine ==
    /\ pc = "loop"
    /\ idx <= Len(lines)
    /\ Len(lines[idx]) <= maxChars
    /\ LET line == lines[idx]
           a == IF /\ \/ ExceedsChars(line, fence, current, currentChars, maxChars)
                      \/ ExceedsLines(line, fence, currentContentLines, maxLines)
                   /\ Len(current) > 0
                THEN Flush(Acc, fence) ELSE Acc
       IN  /\ chunks' = a.chunks
           /\ closedWith' = a.closedWith
           /\ current' = Append(a.current, line)
           /\ currentChars' = IF Len(a.current) = 0 THEN Len(line)
                              ELSE a.currentChars + 1 + Len(line)
           /\ currentContentLines' =
                  a.currentContentLines + (IF LineIsFence(line, fence) THEN 0 ELSE 1)
           /\ fence' = UpdateFence(line, fence)
    /\ idx' = idx + 1
    /\ UNCHANGED <<content, maxChars, maxLines, lines, remaining, pc, err>>
    /\ UNCHANGED <<lineCount, wvars>>

\* "Hard-cut: single line exceeds maxChars": flush, then enter one of the loops
BeginHardCut ==
    /\ pc = "loop"
    /\ idx <= Len(lines)
    /\ Len(lines[idx]) > maxChars
    /\ SetAcc(Flush(Acc, fence))
    /\ remaining' = lines[idx]
    /\ pc' = IF fence.active THEN "cutFence" ELSE "cutPlain"
    /\ UNCHANGED <<content, maxChars, maxLines, lines, idx, fence, err>>
    /\ UNCHANGED <<lineCount, wvars>>

\* const room = maxChars - currentChars - joinCost - fenceCloseOverhead;
Room(cur, curChars, f, mc) ==
    mc - curChars - (IF Len(cur) > 0 THEN 1 ELSE 0) - (1 + Len(CloseLine(f)))

\* One iteration of "while (remaining.length > 0)" inside an active fence.
CutFencePiece ==
    /\ pc = "cutFence"
    /\ Len(remaining) > 0
    /\ Room(current, currentChars, fence, maxChars) > 0
    /\ LET joinCost == IF Len(current) > 0 THEN 1 ELSE 0
           take == Min(Room(current, currentChars, fence, maxChars), Len(remaining))
           piece == SubSeq(remaining, 1, take)
           rest == SubSeq(remaining, take + 1, Len(remaining))
           pushed == [Acc EXCEPT
                        !.current = Append(current, piece),
                        !.currentChars = IF Len(current) = 0 THEN Len(piece)
                                         ELSE currentChars + joinCost + Len(piece),
                        !.currentContentLines = currentContentLines +
                            (IF LineIsFence(lines[idx], fence) THEN 0 ELSE 1)]
       IN  /\ SetAcc(IF Len(rest) > 0 THEN Flush(pushed, fence) ELSE pushed)
           /\ remaining' = rest
    /\ UNCHANGED <<content, maxChars, maxLines, lines, idx, fence, pc, err>>
    /\ UNCHANGED <<lineCount, wvars>>

\* if (room <= 0) throw new Error("... too small to preserve active code fence wrappers.")
CutFenceThrow ==
    /\ pc = "cutFence"
    /\ Len(remaining) > 0
    /\ Room(current, currentChars, fence, maxChars) <= 0
    /\ pc' = "threw"
    /\ err' = "too_small"
    /\ UNCHANGED <<content, maxChars, maxLines, lines, idx, chunks, current, currentChars,
                   currentContentLines, fence, remaining, closedWith>>
    /\ UNCHANGED <<lineCount, wvars>>

\* the fenced loop is over: update the fence state, continue with the next line
EndCutFence ==
    /\ pc = "cutFence"
    /\ Len(remaining) = 0
    /\ fence' = UpdateFence(lines[idx], fence)
    /\ idx' = idx + 1
    /\ pc' = "loop"
    /\ UNCHANGED <<content, maxChars, maxLines, lines, chunks, current, currentChars,
                   currentContentLines, remaining, err, closedWith>>
    /\ UNCHANGED <<lineCount, wvars>>

\* the plain loop with >= in the place of > in its condition
CutPlainPieceOffByOne ==
    /\ pc = "cutPlain"
    /\ Len(remaining) >= maxChars
    /\ chunks' = Append(chunks, SubSeq(remaining, 1, maxChars))
    /\ closedWith' = Append(closedWith, NoFence)
    /\ remaining' = SubSeq(remaining, maxChars + 1, Len(remaining))
    /\ UNCHANGED <<content, maxChars, maxLines, lines, idx, current, currentChars,
                   currentContentLines, fence, pc, err>>
    /\ UNCHANGED <<lineCount, wvars>>

\* the plain loop that keeps the last character of the piece in remaining
CutPlainPieceKeepsLast ==
    /\ pc = "cutPlain"
    /\ Len(remaining) > maxChars
    /\ chunks' = Append(chunks, SubSeq(remaining, 1, maxChars))
    /\ closedWith' = Append(closedWith, NoFence)
    /\ remaining' = SubSeq(remaining, maxChars, Len(remaining))
    /\ UNCHANGED <<content, maxChars, maxLines, lines, idx, current, currentChars,
                   currentContentLines, fence, pc, err>>
    /\ UNCHANGED <<lineCount, wvars>>

\* One iteration of "while (remaining.length > maxChars)" outside a fence.
CutPlainPiece ==
    /\ pc = "cutPlain"
    /\ Len(remaining) > maxChars
    /\ chunks' = Append(chunks, SubSeq(remaining, 1, maxChars))
    /\ closedWith' = Append(closedWith, NoFence)
    /\ remaining' = SubSeq(remaining, maxChars + 1, Len(remaining))
    /\ UNCHANGED <<content, maxChars, maxLines, lines, idx, current, currentChars,
                   currentContentLines, fence, pc, err>>
    /\ UNCHANGED <<lineCount, wvars>>

\* the plain loop is over: the rest of the line starts the next chunk
EndCutPlain ==
    /\ pc = "cutPlain"
    /\ Len(remaining) <= maxChars
    /\ IF Len(remaining) > 0
       THEN /\ current' = <<remaining>>
            /\ currentChars' = Len(remaining)
            /\ currentContentLines' = IF LineIsFence(lines[idx], fence) THEN 0 ELSE 1
       ELSE UNCHANGED <<current, currentChars, currentContentLines>>
    /\ fence' = UpdateFence(lines[idx], fence)
    /\ idx' = idx + 1
    /\ remaining' = <<>>
    /\ pc' = "loop"
    /\ UNCHANGED <<content, maxChars, maxLines, lines, chunks, err, closedWith>>
    /\ UNCHANGED <<lineCount, wvars>>

\* the sanity check with a loop that stops one chunk early
ExceedsHardLimitSkipLast(cs) ==
    \E i \in 1..(Len(cs) - 1) : Len(cs[i]) > DISCORD_CHAR_LIMIT

\* the sanity check with >= in the place of >
ExceedsHardLimitOffByOne(cs) ==
    \E k \in 1..Len(cs) : Len(cs[k]) >= DISCORD_CHAR_LIMIT

\* the sanity check: some chunk is longer than DISCORD_CHAR_LIMIT
ExceedsHardLimit(cs) == \E i \in 1..Len(cs) : Len(cs[i]) > DISCORD_CHAR_LIMIT

\* After the loop: push what is left (no fence close), check, return.
Finish ==
    /\ pc = "loop"
    /\ idx > Len(lines)
    /\ LET out == IF Len(current) > 0 THEN Append(chunks, Join(current)) ELSE chunks
       IN  /\ chunks' = out
           /\ closedWith' = IF Len(current) > 0 THEN Append(closedWith, NoFence)
                            ELSE closedWith
           /\ IF ExceedsHardLimit(out)
              THEN pc' = "threw" /\ err' = "limit"
              ELSE pc' = "returned" /\ err' = err
    /\ UNCHANGED <<content, maxChars, maxLines, lines, idx, current, currentChars,
                   currentContentLines, fence, remaining>>
    /\ UNCHANGED <<lineCount, wvars>>

\* the steps of one call of chunkContent
chunkContent ==
    \/ ReturnEmpty
    \/ SplitLines
    \/ NormalLine
    \/ BeginHardCut
    \/ CutFencePiece
    \/ CutFenceThrow
    \/ EndCutFence
    \/ CutPlainPiece
    \/ EndCutPlain
    \/ Finish

\* a direct call of one of the two exported functions of the chunker
Next ==
    \/ CountLinesCall
    \/ chunkContent

Spec == Init /\ [][Next]_vars

SpecCeiling == InitCeiling /\ [][Next]_vars

\* The lines of a content for the hard cuts, relative to maxChars mc: a line
\* with white space after the first cut, a line that is two full pieces, a
\* line of three pieces, and the opening line of the hard-cut tests, with
\* which maxChars = 10 leaves no room inside the fence.
CutLines(mc) ==
    { <<>>,
      <<"x">>,
      <<BT, BT, BT, "j", "s">>,
      Pad(A, mc) \o <<SP, "b">>,
      Pad(A, 2 * mc),
      Pad(A, 2 * mc + 3) }

InitCut ==
    /\ maxChars \in MaxCharsValues
    /\ maxLines \in {0, 1}
    /\ content \in Contents(CutLines(maxChars))
    /\ Entry
    /\ NoWorker

SpecCut == InitCut /\ [][Next]_vars

\* One call of chunkContent that runs to its end: the function is sequential
\* code, a step that can be taken is taken.  maxChars = 1 is the least value
\* with which the plain loop shortens the line.  The lines of the content:
\* the blank line, a line that fits, a fence line, a line of three pieces.
LiveLines(mc) ==
    { <<>>,
      <<"x">>,
      <<BT, BT, BT, "j", "s">>,
      Pad(A, 2 * mc + 3) }

InitLive ==
    /\ maxChars \in {1, MinMaxChars}
    /\ maxLines \in {0, 1}
    /\ content \in Contents(LiveLines(maxChars))
    /\ Entry
    /\ NoWorker

SpecLive == InitLive /\ [][chunkContent]_vars /\ WF_vars(chunkContent)

\* The lines of a content for the Fence Tracker: markers of both families
\* and of two lengths, a marker after three and after four spaces, a run of
\* two backquotes, and a fence line longer than maxChars mc.
FenceLines(mc) ==
    { <<>>,
      <<BT, BT>>,
      <<BT, BT, BT>>,
      <<BT, BT, BT, BT>>,
      <<TL, TL, TL>>,
      <<SP, SP, SP, BT, BT, BT>>,
      <<SP, SP, SP, SP, BT, BT, BT>>,
      <<BT, BT, BT>> \o Pad(A, mc) }

InitFence ==
    /\ maxChars \in MaxCharsValues
    /\ maxLines = 0
    /\ content \in Contents(FenceLines(maxChars))
    /\ Entry
    /\ NoWorker

SpecFence == InitFence /\ [][Next]_vars

(* ------------------------------ the worker ----------------------------- *)

\* The worker is modelled from the JSON branch of handleRequest on (the
\* config is parsed, the body is a JSON payload).  A fetch resolves to a
\* response; the status and the rate-limit headers of the response are the
\* choice of Discord.  A sleep changes no state but the time: the pre-emptive
\* sleep is kept in slept, the sleep before a retry is not modelled.

\* the largest number of lines of the content of a request
MaxRequestLines == 2

\* the lines of the content of a request: they make one chunk or several,
\* and make chunkContent throw
RequestLines(mc) ==
    { <<BT, BT, BT>>,
      <<BT, BT, BT>> \o Pad(A, mc),
      Pad(A, mc + 3) }

RequestContents(mc) == {Join(ls) : ls \in LineSeqs(RequestLines(mc), MaxRequestLines)}

\* payload.content is a string, or is no string; payload.embeds is missing,
\* the empty array or an array with an embed; large: the body of the request
\* has more than MAX_INPUT_BYTES bytes
ContentKinds == {"string", "missing", "null", "number"}

EmbedsKinds == {"missing", "empty", "nonempty"}

\* the wait query parameter of the request: absent, "true", anything else
WaitValues == {"undefined", "true", "false"}

\* the thread_id query parameter of the request: absent (or empty), given
ThreadIds == {"", "thread999"}

\* the statuses of the responses of Discord
Statuses == {200, 429, 500}

\* response.ok
Ok(status) == status >= 200 /\ status <= 299

\* updateRateLimitState(response): X-RateLimit-Remaining and
\* X-RateLimit-Reset-After (in ms) of a response, Null for a missing header
RateLimitStates ==
    { [remaining |-> Null, resetAfterMs |-> Null],
      [remaining |-> 0, resetAfterMs |-> 500],
      [remaining |-> 1, resetAfterMs |-> Null],
      [remaining |-> 1, resetAfterMs |-> 500],
      [remaining |-> 2, resetAfterMs |-> 500] }

DEFAULT_RATE_LIMIT_DELAY_MS == 2000

\* buildDiscordUrl(webhookId, webhookToken, threadId, wait): the query
\* parameters of the URL
buildDiscordUrl(tid, w) ==
    (IF w = "true" THEN {"wait=true"} ELSE {})
        \cup (IF w = "false" THEN {"wait=false"} ELSE {})
        \cup (IF tid # "" THEN {"thread_id=" \o tid} ELSE {})

\* max_lines = 1 makes a chunk of every line, max_chars is below the range of
\* validateConfig or its least value
InitWorker ==
    /\ maxChars \in MaxCharsValues
    /\ maxLines = 1
    /\ payload \in [content : ContentKinds, embeds : EmbedsKinds, large : BOOLEAN]
    /\ content \in IF payload.content = "string" THEN RequestContents(MinMaxChars)
                   ELSE {<<>>}
    /\ threadId \in ThreadIds
    /\ wait \in WaitValues
    /\ Locals
    /\ pc = "idle"
    /\ wpc = "request"
    /\ SendEntry

\* const hasEmbeds = Array.isArray(payload.embeds) && payload.embeds.length > 0;
hasEmbeds == payload.embeds = "nonempty"

\* hasContent without the test of the length
hasContentOfAnyLength == payload.content = "string"

\* const hasContent = typeof content === "string" && content.length > 0;
hasContent == payload.content = "string" /\ Len(content) > 0

\* if (bodyBytes > MAX_INPUT_BYTES) return jsonError("Payload exceeds 100KB limit", 413);
PayloadTooLarge ==
    /\ wpc = "request"
    /\ payload.large
    /\ response' = 413
    /\ wpc' = "responded"
    /\ UNCHANGED <<cvars, lineCount, payload, threadId, wait, sendIdx, rateLimit,
                   failedStatus, firstMessageObject, retryCount, lastStatus, result,
                   requests, slept>>

\* validateConfig(config) === null
ConfigAccepted == maxChars >= MinMaxChars /\ maxChars <= DISCORD_CHAR_LIMIT /\ maxLines >= 0

\* validateConfig(config) is an error message: 400
InvalidConfig ==
    /\ wpc = "request"
    /\ ~payload.large
    /\ ~ConfigAccepted
    /\ response' = 400
    /\ wpc' = "responded"
    /\ UNCHANGED <<cvars, lineCount, payload, threadId, wait, sendIdx, rateLimit,
                   failedStatus, firstMessageObject, retryCount, lastStatus, result,
                   requests, slept>>

\* if (!hasContent || hasEmbeds): one fetch with the payload as it came;
\* the body 0 is JSON.stringify(payload)
Passthrough ==
    /\ wpc = "request"
    /\ ~payload.large
    /\ ConfigAccepted
    /\ ~hasContent \/ hasEmbeds
    /\ \E status \in Statuses :
          /\ requests' = Append(requests, [url |-> buildDiscordUrl(threadId, wait),
                                           body |-> 0, ok |-> Ok(status)])
          /\ response' = IF wait = "true" THEN status ELSE 204
    /\ wpc' = "responded"
    /\ UNCHANGED <<cvars, lineCount, payload, threadId, wait, sendIdx, rateLimit,
                   failedStatus, firstMessageObject, retryCount, lastStatus, result,
                   slept>>

\* chunks = chunkContent(content as string, config);
CallChunkContent ==
    /\ wpc = "request"
    /\ ~payload.large
    /\ ConfigAccepted
    /\ hasContent /\ ~hasEmbeds
    /\ pc' = "start"
    /\ wpc' = "chunking"
    /\ UNCHANGED <<content, maxChars, maxLines, lines, idx, chunks, current, currentChars,
                   currentContentLines, fence, remaining, err, closedWith>>
    /\ UNCHANGED <<lineCount, payload, threadId, wait, sendIdx, rateLimit, failedStatus,
                   firstMessageObject, retryCount, lastStatus, result, requests, slept,
                   response>>

\* catch (err) { return jsonError(msg, 422); }
ChunkingFailed ==
    /\ wpc = "chunking"
    /\ pc = "threw"
    /\ response' = 422
    /\ wpc' = "responded"
    /\ UNCHANGED <<cvars, lineCount, payload, threadId, wait, sendIdx, rateLimit,
                   failedStatus, firstMessageObject, retryCount, lastStatus, result,
                   requests, slept>>

\* chunkPayloads[k - 1]: the first chunk carries the fields of the payload,
\* the later ones the content (and username, avatar_url) only
ChunkPayload(k) ==
    [content |-> chunks[k],
     embeds |-> IF k = 1 THEN payload.embeds ELSE "missing",
     rest |-> k = 1]

\* the chunk list taken before chunkContent has run to its end
ChunkListStarted == pc # "idle" /\ Len(chunks) > 0

\* chunkContent has returned the chunk list
ChunkListReady == pc = "returned"

\* const result = await sendChunks(chunkPayloads, webhookId, webhookToken, threadId, wait);
CallSendChunks ==
    /\ wpc = "chunking"
    /\ ChunkListReady
    /\ wpc' = "send"
    /\ UNCHANGED <<cvars, lineCount, payload, threadId, wait, sendIdx, rateLimit,
                   failedStatus, firstMessageObject, retryCount, lastStatus, result,
                   requests, slept, response>>

\* wait on the URL of every chunk
chunkWaitOnEveryChunk == wait

\* const chunkWait = isFirst ? wait : undefined;
chunkWait == IF sendIdx = 0 THEN wait ELSE "undefined"

\* the pre-emptive delay before the request of chunk sendIdx, 0 for none
PreemptiveDelay ==
    IF rateLimit.remaining # Null /\ rateLimit.remaining = 1 /\ sendIdx < Len(chunks) - 1
    THEN (IF rateLimit.resetAfterMs # Null THEN rateLimit.resetAfterMs
          ELSE DEFAULT_RATE_LIMIT_DELAY_MS)
    ELSE 0

\* the end of an iteration after an ok response: the rate-limit state, the
\* status, the first message object (safeJsonParse gives null for a body
\* that is no JSON), and the next chunk
NextChunk(status) ==
    /\ rateLimit' \in RateLimitStates
    /\ lastStatus' = status
    /\ IF sendIdx = 0 /\ wait = "true"
       THEN firstMessageObject' \in {"object", "null"}
       ELSE firstMessageObject' = firstMessageObject
    /\ sendIdx' = sendIdx + 1
    /\ wpc' = "send"
    /\ UNCHANGED <<result, response>>

\* One iteration of the loop up to the first response: the URL, the
\* pre-emptive sleep, the fetch; an ok response ends the iteration.
FetchChunk ==
    /\ wpc = "send"
    /\ sendIdx < Len(chunks)
    /\ slept' = PreemptiveDelay
    /\ \E status \in Statuses :
          /\ requests' = Append(requests, [url |-> buildDiscordUrl(threadId, chunkWait),
                                           body |-> sendIdx + 1, ok |-> Ok(status)])
          /\ IF Ok(status)
             THEN /\ NextChunk(status)
                  /\ UNCHANGED <<failedStatus, retryCount>>
             ELSE /\ failedStatus' = status
                  /\ wpc' = "retry"
                  /\ UNCHANGED <<sendIdx, rateLimit, firstMessageObject, retryCount,
                                 lastStatus, result, response>>
    /\ UNCHANGED <<cvars, lineCount, payload, threadId, wait>>

\* the failure with the failing chunk counted as sent
RetryFailedCountsChunk(status) ==
    /\ result' = [success |-> FALSE,
                  firstMessageObject |-> firstMessageObject,
                  chunksSent |-> sendIdx + 1,
                  chunksTotal |-> Len(chunks),
                  retryCount |-> retryCount + 1,
                  lastStatus |-> status,
                  lastError |-> "Discord API error"]
    /\ wpc' = "sent"
    /\ UNCHANGED <<sendIdx, rateLimit, failedStatus, firstMessageObject, lastStatus,
                   response>>

\* the failure that retries once more before it gives up
RetryFailedRetriesAgain(status) ==
    /\ IF Cardinality({k \in 1..Len(requests) : requests[k].body = sendIdx + 1}) < 2
       THEN /\ wpc' = "retry"
            /\ result' = result
       ELSE /\ wpc' = "sent"
            /\ result' = [success |-> FALSE,
                          firstMessageObject |-> firstMessageObject,
                          chunksSent |-> sendIdx,
                          chunksTotal |-> Len(chunks),
                          retryCount |-> retryCount + 1,
                          lastStatus |-> status,
                          lastError |-> "Discord API error"]
    /\ UNCHANGED <<sendIdx, rateLimit, failedStatus, firstMessageObject, lastStatus,
                   response>>

\* if (!response.ok) after the retry: return { success: false, ... }
RetryFailed(status) ==
    /\ result' = [success |-> FALSE,
                  firstMessageObject |-> firstMessageObject,
                  chunksSent |-> sendIdx,
                  chunksTotal |-> Len(chunks),
                  retryCount |-> retryCount + 1,
                  lastStatus |-> status,
                  lastError |-> "Discord API error"]
    /\ wpc' = "sent"
    /\ UNCHANGED <<sendIdx, rateLimit, failedStatus, firstMessageObject, lastStatus,
                   response>>

\* "Single retry for any error": the second fetch of the same URL and body;
\* a second response that is not ok ends sendChunks with a failure
RetryChunk ==
    /\ wpc = "retry"
    /\ retryCount' = retryCount + 1
    /\ slept' = slept
    /\ \E status \in Statuses :
          /\ requests' = Append(requests, [url |-> buildDiscordUrl(threadId, chunkWait),
                                           body |-> sendIdx + 1, ok |-> Ok(status)])
          /\ IF Ok(status)
             THEN /\ NextChunk(status)
                  /\ failedStatus' = Null
             ELSE RetryFailed(status)
    /\ UNCHANGED <<cvars, lineCount, payload, threadId, wait>>

\* the loop is over: return { success: true, ... }
SendSucceeded ==
    /\ wpc = "send"
    /\ sendIdx >= Len(chunks)
    /\ result' = [success |-> TRUE,
                  firstMessageObject |-> firstMessageObject,
                  chunksSent |-> Len(chunks),
                  chunksTotal |-> Len(chunks),
                  retryCount |-> retryCount,
                  lastStatus |-> lastStatus,
                  lastError |-> "null"]
    /\ wpc' = "sent"
    /\ UNCHANGED <<cvars, lineCount, payload, threadId, wait, sendIdx, rateLimit,
                   failedStatus, firstMessageObject, retryCount, lastStatus, requests,
                   slept, response>>

\* the response of the worker after sendChunks: 502, 200 with the first
\* message object, or 204
Respond ==
    /\ wpc = "sent"
    /\ response' = IF ~result.success THEN 502
                   ELSE IF wait = "true" /\ result.firstMessageObject # "null" THEN 200
                   ELSE 204
    /\ wpc' = "responded"
    /\ UNCHANGED <<cvars, lineCount, payload, threadId, wait, sendIdx, rateLimit,
                   failedStatus, firstMessageObject, retryCount, lastStatus, result,
                   requests, slept>>

\* the steps of sendChunks
sendChunks ==
    \/ FetchChunk
    \/ RetryChunk
    \/ SendSucceeded

\* One request to the worker.  handleRequest calls chunkContent with a
\* non-empty content only, so the early return of chunkContent is no step
\* of the worker.
NextWorker ==
    \/ PayloadTooLarge
    \/ InvalidConfig
    \/ Passthrough
    \/ CallChunkContent
    \/ SplitLines
    \/ NormalLine
    \/ BeginHardCut
    \/ CutFencePiece
    \/ CutFenceThrow
    \/ EndCutFence
    \/ CutPlainPiece
    \/ EndCutPlain
    \/ Finish
    \/ ChunkingFailed
    \/ CallSendChunks
    \/ sendChunks
    \/ Respond

SpecWorker == InitWorker /\ [][NextWorker]_vars

(* ------------------------------ properties ----------------------------- *)

\* validateConfig(config) = null
ValidConfig ==
    /\ maxChars >= MinMaxChars
    /\ maxChars <= DISCORD_CHAR_LIMIT
    /\ maxLines >= 0

Returned == pc = "returned"

ChunkLines(i) == Split(chunks[i])

HasFenceLine(i) == \E k \in 1..Len(ChunkLines(i)) : isFenceLine(ChunkLines(i)[k])

\* C1: a call that returns returns no chunk longer than DISCORD_CHAR_LIMIT, and
\* a call that produced a longer chunk has thrown (the chunk is neither
\* returned nor cut down); the call throws for the limit only then.
C1_HardCeiling ==
    /\ Returned => \A i \in 1..Len(chunks) : Len(chunks[i]) <= DISCORD_CHAR_LIMIT
    /\ (pc = "threw" /\ err = "limit")
          => \E i \in 1..Len(chunks) : Len(chunks[i]) > DISCORD_CHAR_LIMIT

\* C1 witness: under a valid config a chunk longer than the limit was
\* produced and the call threw.
C1_Witness ==
    /\ ValidConfig
    /\ pc = "threw" /\ err = "limit"
    /\ \E i \in 1..Len(chunks) : Len(chunks[i]) > DISCORD_CHAR_LIMIT

\* C2 as stated: under a valid config every returned chunk has length at most
\* maxChars, the chunks that carry fence wrapper lines included.
C2_AllWithinMaxChars ==
    (Returned /\ ValidConfig)
        => \A i \in 1..Len(chunks) : Len(chunks[i]) <= maxChars

\* C2 amended: under a valid config every returned chunk that holds no
\* fence delimiter line has length at most maxChars.
C2_WithinMaxCharsOutsideFences ==
    (Returned /\ ValidConfig)
        => \A i \in 1..Len(chunks) : ~HasFenceLine(i) => Len(chunks[i]) <= maxChars

\* C2 witness: under a valid config a content was split, and a chunk free of
\* fence lines fills maxChars exactly.
C2_Witness ==
    /\ Returned /\ ValidConfig
    /\ Len(chunks) >= 2
    /\ \E i \in 1..Len(chunks) : ~HasFenceLine(i) /\ Len(chunks[i]) = maxChars

\* the readable lines of a text: the lines that are neither empty nor fence
\* delimiter lines
CountReadable(text) ==
    LET ls == Split(text) IN
    Cardinality({k \in 1..Len(ls) : Len(ls[k]) > 0 /\ ~isFenceLine(ls[k])})

\* the fence delimiter lines of a sequence of lines
CountFenceLines(ls) == Cardinality({k \in 1..Len(ls) : isFenceLine(ls[k])})

\* the state of the Fence Tracker after the lines ls, started in state f
RECURSIVE Track(_, _)
Track(ls, f) == IF Len(ls) = 0 THEN f ELSE Track(Tail(ls), UpdateFence(ls[1], f))

EndsClosed(ls) == ~Track(ls, NoFence).active

AllLinesFit == \A k \in 1..Len(lines) : Len(lines[k]) <= maxChars

\* C3 as stated: under a valid config with maxLines > 0 every returned chunk has at most maxLines
\* readable lines.
C3_ReadableLinesWithinMaxLines ==
    (Returned /\ ValidConfig /\ maxLines > 0)
        => \A i \in 1..Len(chunks) : CountReadable(chunks[i]) <= maxLines

\* C4 as stated: under a valid config a content that fits in maxChars and whose readable lines are at
\* most maxLines (or maxLines = 0) is returned as the one chunk it is.
C4_FastPath ==
    (/\ pc \in {"returned", "threw"}
     /\ ValidConfig
     /\ Len(content) <= maxChars
     /\ (maxLines = 0 \/ CountReadable(content) <= maxLines))
        => (Returned /\ chunks = <<content>>)

\* C5 as stated: under a valid config every input line that fits in maxChars is, whole, one line of
\* one returned chunk.
C5_FittingLinesStayWhole ==
    (Returned /\ ValidConfig)
        => \A k \in 1..Len(lines) :
              Len(lines[k]) <= maxChars
                  => \E i \in 1..Len(chunks) :
                        \E j \in 1..Len(ChunkLines(i)) : ChunkLines(i)[j] = lines[k]

\* C6 as stated: under a valid config a chunk ended while a fence was open has the close marker as
\* its last line, and the next chunk has the opening line of that fence,
\* verbatim, as its first line.
C6_CloseThenReplayVerbatim ==
    (Returned /\ ValidConfig)
        => \A i \in 1..Len(chunks) :
              closedWith[i].active
                  => /\ ChunkLines(i)[Len(ChunkLines(i))] = CloseLine(closedWith[i])
                     /\ i < Len(chunks)
                     /\ ChunkLines(i + 1)[1] = closedWith[i].openLine

\* C7 as stated: under a valid config, when the Fence Tracker ends closed on the content, it ends
\* closed on every returned chunk taken alone.
C7_ChunksWellFormed ==
    (Returned /\ ValidConfig /\ EndsClosed(lines))
        => \A i \in 1..Len(chunks) : EndsClosed(ChunkLines(i))

\* C8 as stated: under a valid config, when the fence markers of the content are balanced (an even
\* number of fence delimiter lines, no fence open at the end), every returned
\* chunk has an even number of fence delimiter lines.
C8_EvenFenceLinesPerChunk ==
    (Returned /\ ValidConfig /\ EndsClosed(lines) /\ CountFenceLines(lines) % 2 = 0)
        => \A i \in 1..Len(chunks) : CountFenceLines(ChunkLines(i)) % 2 = 0

IsPrefix(c, l) == Len(c) <= Len(l) /\ c = SubSeq(l, 1, Len(c))

IsSuffix(c, l) == Len(c) <= Len(l) /\ c = SubSeq(l, Len(l) - Len(c) + 1, Len(l))

\* C9 as stated: under a valid config every input line (that is not white space only) is in the
\* returned chunks with its leading and its trailing white space: some chunk
\* line is a beginning of it, some chunk line is an end of it (the line
\* itself, or its first and last piece after a hard cut).
C9_WhitespaceKept ==
    (Returned /\ ValidConfig)
        => \A k \in 1..Len(lines) :
              LeadingWs(lines[k]) < Len(lines[k])
                  => /\ \E i \in 1..Len(chunks) : \E j \in 1..Len(ChunkLines(i)) :
                            /\ Len(ChunkLines(i)[j]) > 0
                            /\ IsPrefix(ChunkLines(i)[j], lines[k])
                     /\ \E i \in 1..Len(chunks) : \E j \in 1..Len(ChunkLines(i)) :
                            /\ Len(ChunkLines(i)[j]) > 0
                            /\ IsSuffix(ChunkLines(i)[j], lines[k])

\* the lines of chunk i without the replayed opening line at its start and
\* the close marker at its end
OwnLines(i) ==
    LET ls == ChunkLines(i)
        from == IF i > 1 /\ closedWith[i - 1].active THEN 2 ELSE 1
        to == IF closedWith[i].active THEN Len(ls) - 1 ELSE Len(ls)
    IN  SubSeq(ls, from, to)

RECURSIVE OwnLinesFrom(_)
OwnLinesFrom(i) == IF i > Len(chunks) THEN <<>> ELSE OwnLines(i) \o OwnLinesFrom(i + 1)

\* C10 as stated: under a valid config, when no line is longer than maxChars, the returned chunks
\* without their close markers and replayed opening lines, joined in order by
\* "\n", are the content.
C10_RoundTrip ==
    (Returned /\ ValidConfig /\ Len(lines) > 0 /\ AllLinesFit)
        => Join(OwnLinesFrom(1)) = content

Finished == pc \in {"returned", "threw"}

\* the lines of ls that chunkContent counts, the fence being f before them:
\* every line but the one that opens a fence or closes the open fence
RECURSIVE CountContent(_, _)
CountContent(ls, f) ==
    IF Len(ls) = 0 THEN 0
    ELSE (IF LineIsFence(ls[1], f) THEN 0 ELSE 1)
             + CountContent(Tail(ls), UpdateFence(ls[1], f))

HasBlankLine(ls) == \E k \in 1..Len(ls) : Len(ls[k]) = 0

\* the greatest close-fence overhead ("\n" and the close marker) that a fence
\* line of ls can bring, 0 when ls has no fence line
CloseOverhead(ls) ==
    IF CountFenceLines(ls) = 0 THEN 0
    ELSE LET k == CHOOSE k \in 1..Len(ls) :
                      /\ isFenceLine(ls[k])
                      /\ \A j \in 1..Len(ls) :
                            isFenceLine(ls[j])
                                => FenceMatch(ls[j]).markerLen <= FenceMatch(ls[k]).markerLen
         IN  1 + FenceMatch(ls[k]).markerLen

FitsWithWrappers == Len(content) + CloseOverhead(Split(content)) <= maxChars

InsertAt(ls, k, l) == SubSeq(ls, 1, k) \o <<l>> \o SubSeq(ls, k + 1, Len(ls))

C13_MaxLinesZeroUnlimited ==
    /\ (/\ pc = "loop" /\ idx <= Len(lines) /\ Len(lines[idx]) <= maxChars
        /\ (maxLines = 0 \/ maxLines >= Len(lines)))
           => \A n \in {0} \cup (Len(lines)..(Len(lines) + 2)) :
                 ~ExceedsLines(lines[idx], fence, currentContentLines, n)
    /\ (/\ Finished /\ maxLines = 0
        /\ Len(content) <= maxChars
        /\ CountFenceLines(Split(content)) = 0)
           => (Returned /\ chunks = <<content>>)

\* C13 witness: a content of MaxInputLines non-empty lines and no fence was
\* returned as [content] under maxLines = 0.
C13_Witness ==
    /\ Returned /\ maxLines = 0
    /\ Len(lines) = MaxInputLines
    /\ ~HasBlankLine(lines)
    /\ CountFenceLines(lines) = 0
    /\ chunks = <<content>>

\* C14 as stated: under a valid config no chunk returned for a non-empty
\* content is the empty string.
C14_NoEmptyChunk ==
    (Returned /\ ValidConfig /\ content # <<>>)
        => \A k \in 1..Len(chunks) : Len(chunks[k]) >= 1

\* one step of chunkContent brings the call nearer to its end
Progress ==
    \/ pc = "start"
    \/ pc' \in {"returned", "threw"}
    \/ idx' > idx
    \/ idx' = idx /\ pc = "loop" /\ pc' \in {"cutFence", "cutPlain"}
    \/ idx' = idx /\ pc' = pc /\ Len(remaining') < Len(remaining)

\* the two ways chunkContent fails, and no other end than a return or a
\* throw: after the split of the content the call has a step until its end
\* (in the fenced loop the line is exhausted, or the call throws, or there is
\* room for a piece)
OnlyTwoFailures ==
    /\ pc = "threw" <=> err # "none"
    /\ err \in {"none", "too_small", "limit"}
    /\ err = "too_small"
          => /\ pc = "threw"
             /\ fence.active
             /\ Len(lines[idx]) > maxChars
             /\ Len(remaining) > 0
             /\ Len(fence.openLine) + 1 + 1 + 1 + Len(CloseLine(fence)) > maxChars
    /\ err = "limit" => \E k \in 1..Len(chunks) : Len(chunks[k]) > DISCORD_CHAR_LIMIT
    /\ pc = "loop" => ENABLED (Finish \/ BeginHardCut \/ NormalLine)
    /\ pc = "cutPlain" => ENABLED (CutPlainPiece \/ EndCutPlain)
    /\ pc = "cutFence"
          => \/ ENABLED (CutFenceThrow \/ EndCutFence)
             \/ Len(remaining) > 0 /\ Room(current, currentChars, fence, maxChars) > 0

\* C15: chunkContent throws only (a) when a line is hard-cut inside an open
\* fence and the opening line, one character and the close marker do not fit
\* in maxChars, or (b) when a chunk it produced is longer than
\* DISCORD_CHAR_LIMIT; in every other state it can take a step, and every
\* step brings it nearer to its end, so every other call returns.
C15_FailsOnlyTwoWays == []OnlyTwoFailures /\ [][chunkContent => Progress]_vars

\* C15 witness: under a valid config the call threw for the fence wrappers
\* while it was cutting a line inside an open fence.
C15_Witness ==
    /\ ValidConfig
    /\ pc = "threw" /\ err = "too_small"
    /\ fence.active /\ Len(remaining) > 0

(* ----------------------- properties of the worker ---------------------- *)

\* the places in requests of the requests that carry chunk k
RequestsFor(k) == {n \in 1..Len(requests) : requests[n].body = k}

\* the chunks that received an ok response
OkChunks == {k \in 1..Len(chunks) : \E n \in RequestsFor(k) : requests[n].ok}

\* sendChunks has returned its SendResult
SendReturned == result # NoResult

\* C16: sendChunks returns success = false exactly when the retry of a chunk
\* has failed too: chunksSent is then the number of chunks that received an
\* ok response, these are the chunks before the failing one, the failing
\* chunk has its two requests at the end of the history and no later chunk
\* has a request; chunksTotal is the length of the input; on success
\* chunksSent = chunksTotal, every chunk received an ok response and
\* lastError is null.
C16_StopsAtFirstFailedRetry ==
    SendReturned
        => /\ result.chunksTotal = Len(chunks)
           /\ result.chunksSent = Cardinality(OkChunks)
           /\ OkChunks = 1..result.chunksSent
           /\ ~result.success
                 => /\ result.chunksSent < Len(chunks)
                    /\ result.lastError # "null"
                    /\ RequestsFor(result.chunksSent + 1)
                           = {Len(requests) - 1, Len(requests)}
                    /\ ~requests[Len(requests) - 1].ok
                    /\ ~requests[Len(requests)].ok
                    /\ \A n \in 1..Len(requests) :
                          requests[n].body <= result.chunksSent + 1
           /\ result.success
                 => /\ result.chunksSent = result.chunksTotal
                    /\ result.lastError = "null"

\* C16 witness: sendChunks failed after it had sent a chunk, and left at
\* least one chunk after the failing one without a request.
C16_Witness ==
    /\ SendReturned
    /\ ~result.success
    /\ result.chunksSent >= 1
    /\ result.chunksTotal >= result.chunksSent + 2

\* one step of sendChunks brings the call nearer to its end
SendProgress ==
    \/ wpc' = "sent"
    \/ sendIdx' > sendIdx
    \/ wpc = "send" /\ wpc' = "retry" /\ sendIdx' = sendIdx

\* no chunk has more than two requests, a second request follows a first
\* response that was not ok, and sendChunks can take a step until it returns
AtMostOneRetry ==
    /\ \A k \in 1..Len(chunks) :
          /\ Cardinality(RequestsFor(k)) <= 2
          /\ \A n, m \in RequestsFor(k) : n < m => ~requests[n].ok
    /\ Cardinality({n \in 1..Len(requests) : requests[n].body >= 1}) <= 2 * Len(chunks)
    /\ retryCount <= Len(chunks)
    /\ wpc \in {"send", "retry"} => ENABLED sendChunks

WaitParams == {"wait=true", "wait=false"}

\* C18: in the requests of sendChunks the wait parameter is on the URL of
\* the first chunk only, there as the caller passed it, and the thread_id
\* parameter, when given, is on the URL of every request, retries included.
C18_WaitOnFirstThreadOnAll ==
    \A n \in 1..Len(requests) :
        requests[n].body >= 1
            => /\ requests[n].body >= 2 => requests[n].url \cap WaitParams = {}
               /\ requests[n].body = 1
                     => /\ "wait=true" \in requests[n].url <=> wait = "true"
                        /\ "wait=false" \in requests[n].url <=> wait = "false"
               /\ threadId # "" => ("thread_id=" \o threadId) \in requests[n].url
               /\ threadId = "" => requests[n].url \subseteq WaitParams

\* C18 witness: with wait = true and a thread_id, the first chunk and a later
\* chunk were both retried.
C18_Witness ==
    /\ SendReturned
    /\ wait = "true"
    /\ threadId # ""
    /\ Cardinality(RequestsFor(1)) = 2
    /\ Cardinality(RequestsFor(2)) = 2

\* C19: when chunkContent has thrown no request has been made and the worker
\* answers 422, and it answers 422 then only; no request is made while
\* chunkContent runs, and a request that carries a chunk is made only after
\* chunkContent has returned the chunk list.
C19_ChunkingAllOrNothing ==
    /\ pc = "threw" => /\ requests = <<>>
                       /\ wpc \in {"direct", "chunking", "responded"}
                       /\ wpc = "responded" => response = 422
    /\ response = 422 => pc = "threw" /\ err # "none"
    /\ wpc \in {"request", "chunking"} => requests = <<>>
    /\ (\E n \in 1..Len(requests) : requests[n].body >= 1) => pc = "returned"

\* C19 witness: chunkContent threw after it had produced chunks, and the
\* worker answered 422 without any request.
C19_Witness ==
    /\ wpc = "responded"
    /\ response = 422
    /\ pc = "threw"
    /\ Len(chunks) >= 1
    /\ requests = <<>>

\* a payload with a non-empty embeds array, or with a content that is
\* missing, null, no string or empty
PassthroughPayload ==
    /\ wpc # "direct"
    /\ \/ payload.embeds = "nonempty"
       \/ payload.content # "string"
       \/ content = <<>>

\* C20 as stated: a payload with embeds or without content is not chunked
\* and is forwarded in one request that carries the whole payload.
C20_PassthroughAlwaysForwarded ==
    (PassthroughPayload /\ wpc = "responded")
        => /\ pc = "idle"
           /\ Len(requests) = 1
           /\ requests[1].body = 0

\* C20 amended: a payload with embeds or without content is never chunked;
\* when the request is accepted (a body of at most MAX_INPUT_BYTES, a valid
\* config) it is forwarded in one request that carries the whole payload,
\* with the query parameters of the caller, whatever the length of the
\* content; a request that is not accepted is answered 413 or 400 without
\* any request to Discord.
C20_PassthroughWhenAccepted ==
    PassthroughPayload
        => /\ pc = "idle"
           /\ chunks = <<>>
           /\ (wpc = "responded" /\ ~payload.large /\ ValidConfig)
                 => /\ Len(requests) = 1
                    /\ requests[1].body = 0
                    /\ requests[1].url = buildDiscordUrl(threadId, wait)
           /\ (wpc = "responded" /\ (payload.large \/ ~ValidConfig))
                 => /\ requests = <<>>
                    /\ response = IF payload.large THEN 413 ELSE 400

\* C20 witness: a payload with embeds and a content longer than maxChars was
\* forwarded in one request.
C20_Witness ==
    /\ wpc = "responded"
    /\ payload.embeds = "nonempty"
    /\ payload.content = "string"
    /\ Len(content) > maxChars
    /\ ValidConfig
    /\ Len(requests) = 1
    /\ requests[1].body = 0

(* ----------------------- the steps of the chunker ---------------------- *)

\* the for loop is at the line lines[idx]
LineReached == pc = "loop" /\ idx <= Len(lines)

\* the length of the chunk that current and the line would make, with the
\* close marker of the open fence
LengthWith(line) ==
    Len(Join(Append(current, line))) + (IF fence.active THEN 1 + fence.markerLen ELSE 0)

\* the reasons to start a new chunk before the line lines[idx]
MustSplit ==
    LET line == lines[idx] IN
    \/ Len(line) > maxChars
    \/ LengthWith(line) > maxChars
    \/ /\ maxLines > 0
       /\ currentContentLines + CountContent(<<line>>, fence) > maxLines

\* the step ended the accumulated lines as a chunk
StartsNewChunk == Len(chunks') = Len(chunks) + 1 /\ Len(closedWith') = Len(chunks')

\* the step at a line: a chunk is ended before the line for one of the
\* reasons of MustSplit only, and for each of them when lines are
\* accumulated; otherwise the line is appended to current
GreedyStep ==
    /\ StartsNewChunk => MustSplit
    /\ (MustSplit /\ Len(current) > 0) => StartsNewChunk
    /\ ~MustSplit => /\ chunks' = chunks
                     /\ current' = Append(current, lines[idx])
                     /\ idx' = idx + 1

CeilDiv(n, d) == (n + d - 1) \div d

\* the characters from..to of the line (line.slice(from - 1, to))
Slice(line, from, to) == SubSeq(line, from, Min(to, Len(line)))

\* the line lines[idx], longer than maxChars, is reached with no fence open
PlainCutReached == LineReached /\ Len(lines[idx]) > maxChars /\ ~fence.active

\* in the plain loop: n full pieces of the line have been cut, they are the
\* last n chunks, one chunk each, and the rest of the line is not empty
PlainCutState ==
    LET line == lines[idx]
        n == (Len(line) - Len(remaining)) \div maxChars
    IN  /\ ~fence.active
        /\ Len(line) > maxChars
        /\ current = <<>>
        /\ Len(remaining) >= 1
        /\ Len(line) - Len(remaining) = n * maxChars
        /\ remaining = Slice(line, n * maxChars + 1, Len(line))
        /\ n < CeilDiv(Len(line), maxChars)
        /\ Len(chunks) >= n
        /\ \A j \in 1..n :
              /\ Len(chunks[Len(chunks) - n + j]) = maxChars
              /\ chunks[Len(chunks) - n + j]
                     = Slice(line, (j - 1) * maxChars + 1, j * maxChars)

\* the step that leaves the plain loop: the rest of the line is the last of
\* the ceil(L / maxChars) pieces and starts the next chunk
PlainCutEnd ==
    /\ current' = <<remaining>>
    /\ chunks' = chunks
    /\ Len(remaining) <= maxChars
    /\ (Len(lines[idx]) - Len(remaining)) \div maxChars + 1
           = CeilDiv(Len(lines[idx]), maxChars)

FencePiece == Slice(remaining, 1, Len(remaining) - Len(remaining'))

\* the chunk of a piece that more of the line follows: the opening line of
\* the fence, the piece, the close marker
WrappedPiece == Join(<<fence.openLine, FencePiece, CloseLine(fence)>>)

\* C23 as stated: while a line longer than maxChars is cut inside an open
\* fence, every iteration takes a non-empty piece off the front of the rest
\* of the line; a piece that more of the line follows is emitted in a chunk
\* that is the opening line of the fence, the piece and the close marker, of
\* at most maxChars characters; the last piece follows the opening line in
\* the next chunk; the call throws 'too small' exactly when the room for a
\* piece is 0 or less.
C23_FencedHardCut ==
    /\ [][(pc = "cutFence" /\ pc' = "cutFence")
              => /\ Len(FencePiece) >= 1
                 /\ remaining = FencePiece \o remaining'
                 /\ Len(remaining') > 0
                       => /\ chunks' = Append(chunks, WrappedPiece)
                          /\ Len(WrappedPiece) <= maxChars
                 /\ Len(remaining') = 0
                       => /\ chunks' = chunks
                          /\ current' = <<fence.openLine, FencePiece>>]_vars
    /\ [][(pc = "cutFence" /\ Len(remaining) > 0
               /\ Room(current, currentChars, fence, maxChars) <= 0)
              => (pc' = "threw" /\ err' = "too_small")]_vars
    /\ [](err = "too_small"
              => /\ pc = "threw"
                 /\ Room(current, currentChars, fence, maxChars) <= 0)

\* the line is a fence delimiter with ind leading spaces and a marker of n
\* characters c: at most 3 spaces, then 3 or more backquotes or tildes (the
\* whole run of them), then anything
IsDelimiter(line, ind, c, n) ==
    /\ ind \in 0..3
    /\ c \in {BT, TL}
    /\ n >= 3
    /\ ind + n <= Len(line)
    /\ \A k \in 1..ind : line[k] = SP
    /\ \A k \in (ind + 1)..(ind + n) : line[k] = c
    /\ (ind + n = Len(line) \/ line[ind + n + 1] # c)

Delimiters(line) ==
    {d \in (0..3) \X {BT, TL} \X (3..Len(line)) : IsDelimiter(line, d[1], d[2], d[3])}

\* the Fence Tracker goes from f to g at the line
TrackerRule(line, f, g) ==
    IF ~f.active
    THEN IF Delimiters(line) = {} THEN g = f
         ELSE \E d \in Delimiters(line) :
                 g = [active |-> TRUE, openLine |-> line,
                      markerChar |-> d[2], markerLen |-> d[3]]
    ELSE IF \E d \in Delimiters(line) : d[2] = f.markerChar /\ d[3] >= f.markerLen
         THEN g = NoFence
         ELSE g = f

\* C24: the fence state changes at the end of a line only, on the normal path
\* and on both hard-cut paths alike: with no fence open a fence delimiter
\* line (at most 3 leading spaces, 3 or more backquotes or tildes) opens a
\* fence and no other line does; an open fence is closed by a delimiter line
\* of the same marker character with a marker at least as long, and by no
\* other line.
C24_FenceTracker ==
    /\ [][idx' = idx + 1 => TrackerRule(lines[idx], fence, fence')]_vars
    /\ [][idx' = idx => fence' = fence]_vars

\* C24 witness: a fence of four backquotes is still open after a fence line
\* of three backquotes that was hard-cut and after a line of three tildes.
C24_Witness ==
    /\ pc = "loop"
    /\ Len(lines) = 3
    /\ idx = 4
    /\ fence.active
    /\ fence.markerLen = 4
    /\ Len(lines[2]) > maxChars
    /\ isFenceLine(lines[2])
    /\ lines[3] = <<TL, TL, TL>>

\* the first line of the content opens a fence and is longer than maxChars
OversizedOpening == Len(lines) > 0 /\ isFenceLine(lines[1]) /\ Len(lines[1]) > maxChars

\* the marker of a fence line without its indentation and its info string
BareMarker(line) == Pad(FenceMatch(line).markerChar, FenceMatch(line).markerLen)

\* C25 as stated: when the line that opens a fence is longer than maxChars,
\* the returned chunks start with the bare marker of that line in its place,
\* no chunk line holds the info string, and no chunk is longer than maxChars.
C25_OversizedOpeningTruncated ==
    (Returned /\ OversizedOpening)
        => /\ ChunkLines(1)[1] = BareMarker(lines[1])
           /\ \A i \in 1..Len(chunks) :
                 /\ Len(chunks[i]) <= maxChars
                 /\ \A j \in 1..Len(ChunkLines(i)) :
                       Len(ChunkLines(i)[j]) <= Len(BareMarker(lines[1]))
                           \/ ~IsPrefix(BareMarker(lines[1]) \o <<A>>, ChunkLines(i)[j])

(* ------------------- the rate limit in sendChunks ---------------------- *)

\* sendChunks is about to issue the first request of the chunk sendIdx
FetchReached == wpc = "send" /\ sendIdx < Len(chunks)

\* the sleep that X-RateLimit-Reset-After of the last response asks for
ResetDelay ==
    IF rateLimit.resetAfterMs # Null THEN rateLimit.resetAfterMs
    ELSE DEFAULT_RATE_LIMIT_DELAY_MS

\* C26 as stated: before the first request of a chunk sendChunks sleeps
\* exactly when a chunk was sent before and its last response reported
\* X-RateLimit-Remaining = 1, for X-RateLimit-Reset-After or for
\* DEFAULT_RATE_LIMIT_DELAY_MS; so it never sleeps before the first chunk,
\* after the last one, or when more than 1 remains.
C26_DelaysAtOneRemaining ==
    [][FetchReached
          => slept' = IF sendIdx >= 1 /\ rateLimit.remaining = 1 THEN ResetDelay ELSE 0]_vars

\* C27 as stated: a chunk that follows a response reporting
\* X-RateLimit-Remaining <= 1 (0 included) is never requested without a
\* sleep before it.
C27_DelaysWhenNearLimit ==
    [][(FetchReached /\ sendIdx >= 1 /\ rateLimit.remaining \in {0, 1})
          => slept' > 0]_vars

\* C28 as stated: under a valid config no returned chunk is made of fence
\* wrapper lines only: a chunk that flush() ended with the close marker of
\* the open fence has a line between the opening line and that marker.
C28_NoWrapperOnlyChunk ==
    (Returned /\ ValidConfig)
        => \A i \in 1..Len(chunks) :
              closedWith[i].active
                  => \/ Len(ChunkLines(i)) >= 3
                     \/ ~isFenceLine(ChunkLines(i)[1])

\* the content has no fence delimiter line
FenceFree == CountFenceLines(Split(content)) = 0

\* C29: for a content with no fence delimiter line and a config accepted by
\* validateConfig, chunkContent never throws, no fence is ever open, every
\* chunk it produces, and so every chunk it returns, has at most maxChars
\* characters, and the lines it accumulates never pass maxChars.
C29_FenceFreeNeverThrows ==
    ValidConfig
        => \/ /\ pc # "threw"
              /\ err = "none"
              /\ ~fence.active
              /\ \A i \in 1..Len(chunks) : Len(chunks[i]) <= maxChars
              /\ pc = "loop" => Len(Join(current)) <= maxChars
           \/ ~FenceFree

\* C29 witness: a content with no fence line was returned in three chunks
\* or more, one of them cut from a line longer than maxChars, one of them
\* of several lines.
C29_Witness ==
    /\ Returned /\ ValidConfig /\ FenceFree
    /\ ~AllLinesFit
    /\ Len(chunks) >= 3
    /\ \E i \in 1..Len(chunks) : Len(chunks[i]) = maxChars
    /\ \E i \in 1..Len(chunks) : Len(ChunkLines(i)) >= 2

(* ----------------------------- termination ----------------------------- *)

\* an iteration of a hard-cut loop that stays in the loop shortens the rest
\* of the line
CutShortens ==
    (pc \in {"cutPlain", "cutFence"} /\ pc' = pc) => Len(remaining') < Len(remaining)

\* the lines are taken in order, one at a time, and a hard-cut loop works on
\* the line lines[idx]
OneLineAtATime ==
    /\ idx' \in {idx, idx + 1}
    /\ idx' = idx + 1 => (idx <= Len(lines) /\ pc' = "loop")
    /\ pc' \in {"cutPlain", "cutFence"} => idx' = idx /\ idx <= Len(lines)

\* C30: chunkContent terminates, with a return or a throw, for every content
\* and every maxChars >= 1: an iteration of either hard-cut loop takes at
\* least one character off the rest of the line or throws, every input line
\* is taken once, in order, and the call returns only after the last line.
C30_Terminates ==
    /\ <>Finished
    /\ [][CutShortens]_vars
    /\ [][OneLineAtATime]_vars
    /\ [](Returned => (content = <<>> \/ idx = Len(lines) + 1))

\* C30 witness: with maxChars = 1 a line of five characters was cut into
\* five chunks after the line "x", and the call returned.
C30_Witness ==
    /\ Returned
    /\ maxChars = 1
    /\ Len(lines) = 2
    /\ lines[1] = <<"x">>
    /\ Len(lines[2]) = 5
    /\ Len(chunks) = 6
    /\ idx = 3

====
